---- MODULE Spec2Model ----
(***************************************************************************)
(* Cross-validated evaluation harness of tempor.benchmarks.evaluation:     *)
(* evaluate_classifier, evaluate_regressor, the _InternalScores            *)
(* accumulator and _postprocess_results.                                   *)
(*                                                                         *)
(* One behaviour is one call (or, for a deterministic estimator, two calls *)
(* with the same arguments) of an evaluation entry point. The estimator,   *)
(* the dataset and the sklearn metric routines are outside the module:     *)
(* every call into them either returns or raises, and the score a metric   *)
(* routine returns on a fold is an integer drawn from Scores.              *)
(***************************************************************************)
EXTENDS Integers, Sequences, FiniteSets, TLC

\* ------------------------------------------------------------------ bounds
MaxSplits == 3          \* n_splits ranges over 1..MaxSplits

\* the values a metric routine returns on a fold: representative scores, one
\* negative (r2, kappa and mcc can be), zero, and one positive
Scores == {0 - 1, 0, 1}
Seeds == {0, 1}         \* values of random_state
Paces == {1, 2}         \* clock units one step into the estimator takes
Tasks == {"classifier", "regressor"}

\* What the dataset exposes: predictive targets that are 1-D ("ok"), no
\* predictive part at all ("nopredictive"), a predictive part whose targets
\* are None ("notargets"), or targets with more than one column ("2d").
DataKinds == {"ok", "nopredictive", "notargets", "2d"}

\* "flaky": every call into the estimator may raise or return, independently
\* each time.  "dummy": a deterministic estimator, whose fit either raises or
\* leads to a score, as a function of the training fold and of the state of
\* the process-wide random generator when fit is called.
EstimatorKinds == {"flaky", "dummy"}

\* ------------------------------------------------------------ the catalogs
classifier_supported_metrics ==
    << "aucroc", "aucprc", "accuracy", "f1_score_micro", "f1_score_macro",
       "f1_score_weighted", "kappa", "kappa_quadratic", "precision_micro",
       "precision_macro", "precision_weighted", "recall_micro",
       "recall_macro", "recall_weighted", "mcc" >>

regression_supported_metrics == << "mse", "mae", "r2" >>

output_metrics ==
    << "min", "max", "mean", "stddev", "median", "iqr", "rounds", "errors",
       "durations" >>

Range(s) == { s[i] : i \in 1..Len(s) }

Catalog(t) ==
    IF t = "classifier" THEN classifier_supported_metrics
                        ELSE regression_supported_metrics

VARIABLES
    task,          \* which entry point was called
    n_splits,      \* argument
    random_state,  \* argument
    data,          \* argument: what the dataset exposes (a DataKinds value)
    estimator,     \* argument: [kind, fitted]; the caller's own instance
    pc,            \* position in the entry point
    exc,           \* exception that left the entry point, "none" otherwise
    rng,           \* process-wide random state: <<seed, draws since seeding>>
    results,       \* _InternalScores: [metrics, order, errors, durations]
    splitter,      \* the k-fold splitter: [built, stratified, n_splits, random_state]
    indx,          \* fold index
    model,         \* the current fold's clone: "none", "unfitted", "fitted"
    start,         \* the current fold's start time
    now,           \* the wall clock, what time() returns
    pace,          \* how long a clone or a try block takes during this call
    timing,        \* whether the current fold's start time is taken
    caught,        \* exception handled by the current fold's except block
    clones,        \* number of deep copies made in this call
    fits,          \* number of fit calls made in this call
    failures,      \* folds of this call in which [fit, predict, other] raised
    table,         \* the returned ResultTable (NoTable before the return)
    run,           \* 1 for the first call, 2 for the repeated call
    first,         \* the ResultTable the first call returned
    memo           \* the dummy estimator's behaviour, as observed so far

vars == << task, n_splits, random_state, data, estimator, pc, exc, rng,
           results, splitter, indx, model, start, caught, clones, fits,
           table, run, first, memo, now, pace, timing, failures >>

args == << task, n_splits, random_state, data >>

\* ----------------------------------------------------------------- helpers
RECURSIVE SumSeq(_)
SumSeq(s) == IF s = << >> THEN 0 ELSE Head(s) + SumSeq(Tail(s))

MinSeq(s) == CHOOSE x \in Range(s) : \A y \in Range(s) : x <= y
MaxSeq(s) == CHOOSE x \in Range(s) : \A y \in Range(s) : x >= y

\* s with x inserted before the first element greater than x
RECURSIVE Insert(_, _)
Insert(x, s) ==
    IF s = << >> THEN << x >>
    ELSE IF x <= Head(s) THEN << x >> \o s
    ELSE << Head(s) >> \o Insert(x, Tail(s))

RECURSIVE Sorted(_)
Sorted(s) == IF s = << >> THEN << >> ELSE Insert(Head(s), Sorted(Tail(s)))

\* an exact rational num/den, den > 0
Frac(num, den) == [num |-> num, den |-> den]

\* an array pre-filled with a "missing" marker instead of zero
Zeros_Marker(n) == [i \in 1..n |-> 0 - 1]

\* np.zeros(n)
Zeros(n) == [i \in 1..n |-> 0]

EmptyScores == [metrics |-> << >>, order |-> << >>, errors |-> << >>,
                durations |-> << >>]

NoSplitter == [built |-> FALSE, stratified |-> FALSE, n_splits |-> 0,
               random_state |-> 0]

NoTable == [index |-> << >>, rows |-> << >>]

\* the random generator before anything seeded it
Entropy == << 0 - 1, 0 >>

\* ------------------------------------------------------ ResultAggregator
\* a mean over the non-zero entries only, as if failed folds were left out
Mean_SkipZeros(v) ==
    LET k == Cardinality({ i \in 1..Len(v) : v[i] # 0 })
    IN  Frac(SumSeq(v), IF k = 0 THEN 1 ELSE k)

\* np.mean
Mean(v) == Frac(SumSeq(v), Len(v))

\* np.median: the middle value, or the mean of the two middle values
Median(v) ==
    LET s == Sorted(v)
        n == Len(v)
    IN  Frac(s[(n + 1) \div 2] + s[(n + 2) \div 2], 2)

\* np.std: the square root of the population variance, kept as its radicand
Stddev(v) ==
    LET n == Len(v)
        sq == [i \in 1..n |-> v[i] * v[i]]
    IN  [radicand |-> Frac(n * SumSeq(sq) - SumSeq(v) * SumSeq(v), n * n)]

\* four times the q-th quartile (q = 1, 3) with linear interpolation between
\* the two nearest ranks, as np.percentile does by default
Quartile4(v, q) ==
    LET s == Sorted(v)
        n == Len(v)
        k == (q * (n - 1)) \div 4
        r == (q * (n - 1)) % 4
    IN  IF r = 0 THEN 4 * s[k + 1]
        ELSE 4 * s[k + 1] + r * (s[k + 2] - s[k + 1])

\* scipy.stats.iqr: 75th percentile minus 25th percentile
Iqr(v) == Frac(Quartile4(v, 3) - Quartile4(v, 1), 4)

\* print_score(generate_score(durations)): a summary of the fold durations
generate_score(d) ==
    [mean |-> Mean(d), min |-> MinSeq(d), max |-> MaxSeq(d),
     median |-> Median(d)]

\* one row of the table (lines 170-180)
Row(values, res) ==
    [min |-> MinSeq(values),
     max |-> MaxSeq(values),
     mean |-> Mean(values),
     stddev |-> Stddev(values),
     median |-> Median(values),
     iqr |-> Iqr(values),
     rounds |-> Len(values),
     errors |-> SumSeq(res.errors),
     durations |-> generate_score(res.durations)]

\* _postprocess_results: one row per metric of results.metrics, in its order
postprocess_results(res) ==
    [index |-> res.order,
     rows |-> [m \in DOMAIN res.metrics |-> Row(res.metrics[m], res)]]

\* --------------------------------------------------- what a fold can do
\* An outcome of one fold's try block: the step that raised ("none" when the
\* block ran to its end) and the score q the metric routines return on the
\* fold (0 when no metric routine returned).
Outcome(r, q) == [raise |-> r, q |-> q]

\* evaluate_classifier, lines 381-392: fit, predict_proba, score_proba.
\* score_proba is taken by its own raise statements: RuntimeError on a None
\* input (line 233), ValueError on a metric name it has no branch for (line
\* 314, "InvalidMetric"), or whatever a metric routine raises
\* ("MetricError").  Line 314 is reached when the evaluator's metric list
\* holds a name without a branch; the catalog as shipped holds none.
ClassifierOutcomes ==
    { Outcome(r, 0) : r \in {"fit", "predict", "RuntimeError",
                             "InvalidMetric", "MetricError"} }
      \cup { Outcome("none", q) : q \in Scores }

\* evaluate_regressor, lines 452-463: fit, the test targets, predict, then
\* the three metric routines, each stored as soon as it returns.  A test
\* fold of a dataset without a predictive part has none either (line 455,
\* "MissingTestTargets"); reading targets that are None fails (line 457,
\* "TestTargetsError").
RegressorOutcomes(d) ==
    IF d = "nopredictive"
    THEN { Outcome("fit", 0), Outcome("MissingTestTargets", 0) }
    ELSE IF d = "notargets"
    THEN { Outcome("fit", 0), Outcome("TestTargetsError", 0) }
    ELSE { Outcome(r, 0) : r \in {"fit", "predict", "mse"} }
           \cup { Outcome(r, q) : r \in {"mae", "r2", "none"}, q \in Scores }

Outcomes(t, d) ==
    IF t = "classifier" THEN ClassifierOutcomes ELSE RegressorOutcomes(d)

\* the dummy estimator: fit raises or everything succeeds
DummyOutcomes(t, d) ==
    { o \in Outcomes(t, d) :
        o.raise \in {"fit", "none", "MissingTestTargets",
                     "TestTargetsError"} }

\* the guard with the bound off by one
InvalidNSplits_OffByOne(n) == n < 1

\* line 359 / 434: the guard of the n_splits check
InvalidNSplits(n) == n < 2

\* enable_reproducibility(random_state) reseeds the process-wide generator
enable_reproducibility(rs) == << rs, 0 >>

\* the call left out: the generator stays as it was
SeedGlobal_Skipped(rs, r) == r

\* line 361 / 437: the generator after the call, r being the one before
SeedGlobal(rs, r) == enable_reproducibility(rs)

\* lines 363-366 / 440-442: a fresh accumulator, every catalog metric
\* zero-filled to length n_splits
NewScores(t, n) ==
    [metrics |-> [m \in Range(Catalog(t)) |-> Zeros(n)],
     order |-> Catalog(t),
     errors |-> << >>,
     durations |-> << >>]

\* line 368 / 446: StratifiedKFold or KFold, shuffling with random_state
MakeSplitter(t, n, rs) ==
    [built |-> TRUE, stratified |-> (t = "classifier"), n_splits |-> n,
     random_state |-> rs]

\* lines 369-374: the checks evaluate_classifier makes on the dataset before
\* the loop; evaluate_regressor makes none
DatasetCheck(t, d) ==
    IF t = "classifier" /\ d = "nopredictive" THEN "MissingTargets"
    ELSE IF t = "classifier" /\ d = "notargets" THEN "AttributeError"
    ELSE IF t = "classifier" /\ d = "2d" THEN "InvalidShape"
    ELSE "none"

\* a handler that catches ValueError only
Handled_ValueErrorOnly(e) == e \in {"InvalidMetric", "MissingTestTargets"}

\* line 393 / 464: except BaseException
Handled(e) == TRUE

\* the metrics already stored when the try block is left: lines 390-391
\* store all scores after score_proba returned; lines 460-462 store each
\* score as soon as its routine returns
Stored(t, o) ==
    IF o.raise = "none" THEN Range(Catalog(t))
    ELSE IF t = "regressor" /\ o.raise = "r2" THEN {"mse", "mae"}
    ELSE IF t = "regressor" /\ o.raise = "mae" THEN {"mse"}
    ELSE {}

\* results.metrics[metric][indx] = value, for every metric in ms
Store(metrics, ms, i, q) ==
    [m \in DOMAIN metrics |->
        IF m \in ms THEN [metrics[m] EXCEPT ![i + 1] = q] ELSE metrics[m]]

\* the two appends swapped: 1 after the try block, 0 in the handler
ErrorFlag_Swapped(o) == IF o.raise = "none" THEN 1 ELSE 0

\* line 392 / 463 and line 395 / 466: the flag the fold appends
ErrorFlag(o) == IF o.raise = "none" THEN 0 ELSE 1

\* a handler that logs the failure and appends nothing
AppendFlag_SuccessOnly(errors, o) ==
    IF o.raise = "none" THEN Append(errors, 0) ELSE errors

\* results.errors.append(0) at the end of the try block, or
\* results.errors.append(1) in the handler
AppendFlag(errors, o) == Append(errors, ErrorFlag(o))

\* the key under which the dummy estimator's behaviour on a fold is fixed:
\* the fold (the splitter's seed and the fold index) and the generator state
FoldKey == << splitter.random_state, splitter.n_splits, indx, rng >>

\* ------------------------------------------------------------------ Init
Init ==
    /\ task \in Tasks
    /\ n_splits \in 1..MaxSplits
    /\ random_state \in Seeds
    /\ data \in DataKinds
    /\ task = "regressor" => data # "2d"    \* there "2d" behaves as "ok"
    /\ estimator \in [kind : EstimatorKinds, fitted : {FALSE}]
    /\ pc = "call"
    /\ exc = "none"
    /\ rng = Entropy
    /\ results = EmptyScores
    /\ splitter = NoSplitter
    /\ indx = 0
    /\ model = "none"
    /\ start = 0
    /\ now = 0
    /\ pace \in Paces
    /\ timing = FALSE
    /\ caught = "none"
    /\ clones = 0
    /\ fits = 0
    /\ failures = [fit |-> 0, predict |-> 0, other |-> 0]
    /\ table = NoTable
    /\ run = 1
    /\ first = NoTable
    /\ memo = << >>

\* --------------------------------------------------------------- actions
\* lines 359-360 / 434-435
CheckNSplits ==
    /\ pc = "call"
    /\ IF InvalidNSplits(n_splits)
       THEN pc' = "raised" /\ exc' = "InvalidArgument"
       ELSE pc' = "setup" /\ exc' = exc
    /\ UNCHANGED << args, estimator, rng, results, splitter, indx, model,
                    start, caught, clones, fits, table, run, first, memo,
                    now, pace, timing, failures >>

\* lines 361-368 / 437-446
Setup ==
    /\ pc = "setup"
    /\ rng' = SeedGlobal(random_state, rng)
    /\ results' = NewScores(task, n_splits)
    /\ splitter' = MakeSplitter(task, n_splits, random_state)
    /\ indx' = 0
    /\ pc' = "check"
    /\ UNCHANGED << args, estimator, exc, model, start, caught, clones,
                    fits, table, run, first, memo, now, pace, timing,
                    failures >>

\* lines 369-376; nothing for evaluate_regressor
CheckDataset ==
    /\ pc = "check"
    /\ LET e == DatasetCheck(task, data)
       IN  IF e = "none"
           THEN pc' = "loop" /\ exc' = exc
           ELSE pc' = "raised" /\ exc' = e
    /\ UNCHANGED << args, estimator, rng, results, splitter, indx, model,
                    start, caught, clones, fits, table, run, first, memo,
                    now, pace, timing, failures >>

\* line 378 / 449: copy.deepcopy(estimator), outside the try block
CloneEstimator ==
    /\ pc = "loop"
    /\ indx < splitter.n_splits
    /\ \E ok \in IF estimator.kind = "dummy" THEN {TRUE} ELSE BOOLEAN :
         IF ok
         THEN /\ model' = (IF estimator.fitted THEN "fitted" ELSE "unfitted")
              /\ clones' = clones + 1
              /\ pc' = "start"
              /\ exc' = exc
         ELSE /\ model' = "none"
              /\ clones' = clones
              /\ pc' = "raised"
              /\ exc' = "CloneError"
    /\ now' = now + pace
    /\ UNCHANGED << args, estimator, rng, results, splitter, indx, start,
                    caught, fits, table, run, first, memo, pace, timing,
                    failures >>

\* line 379 / 450
StartTimer ==
    /\ pc = "start"
    /\ start' = now
    /\ timing' = TRUE
    /\ pc' = "try"
    /\ UNCHANGED << args, estimator, exc, rng, results, splitter, indx,
                    model, caught, clones, fits, table, run, first, memo,
                    now, pace, failures >>

\* fit called on an object shared with the caller's estimator
OriginalAfterFit_Shared(e, o) ==
    IF o.raise = "fit" THEN e ELSE [e EXCEPT !.fitted = TRUE]

\* lines 378, 381 / 449, 452: model is a deep copy, so model.fit leaves the
\* caller's estimator e as it was
OriginalAfterFit(e, o) == e

\* the effect of the try block and its handler with outcome o
FoldBody(o) ==
    /\ fits' = fits + 1
    /\ estimator' = OriginalAfterFit(estimator, o)
    /\ rng' = << rng[1], rng[2] + 1 >>
    /\ model' = (IF o.raise = "fit" THEN model ELSE "fitted")
    /\ failures' = (IF o.raise \in {"fit", "predict"}
                    THEN [failures EXCEPT ![o.raise] = @ + 1]
                    ELSE IF o.raise # "none"
                    THEN [failures EXCEPT !.other = @ + 1]
                    ELSE failures)
    /\ IF o.raise = "none" \/ Handled(o.raise)
       THEN /\ results' =
                 [results EXCEPT
                    !.metrics = Store(@, Stored(task, o), indx, o.q),
                    !.errors = AppendFlag(@, o)]
            /\ caught' = o.raise
            /\ pc' = "record"
            /\ exc' = exc
       ELSE /\ results' =
                 [results EXCEPT
                    !.metrics = Store(@, Stored(task, o), indx, o.q)]
            /\ caught' = "none"
            /\ pc' = "raised"
            /\ exc' = o.raise

\* lines 380-395 / 451-466
TryFold ==
    /\ pc = "try"
    /\ IF estimator.kind = "dummy"
       THEN IF FoldKey \in DOMAIN memo
            THEN FoldBody(memo[FoldKey]) /\ memo' = memo
            ELSE \E o \in DummyOutcomes(task, data) :
                   FoldBody(o) /\ memo' = (FoldKey :> o) @@ memo
       ELSE \E o \in Outcomes(task, data) : FoldBody(o) /\ memo' = memo
    /\ now' = now + pace
    /\ UNCHANGED << args, splitter, indx, start, clones, table, run, first,
                    pace, timing >>

\* lines 397-398 / 468-469
RecordDuration ==
    /\ pc = "record"
    /\ results' = [results EXCEPT !.durations = Append(@, now - start)]
    /\ indx' = indx + 1
    /\ timing' = FALSE
    /\ caught' = "none"
    /\ model' = "none"
    /\ pc' = "loop"
    /\ UNCHANGED << args, estimator, exc, rng, splitter, clones, fits,
                    table, run, first, memo, start, now, pace, failures >>

\* line 400 / 471
Return ==
    /\ pc = "loop"
    /\ indx = splitter.n_splits
    /\ table' = postprocess_results(results)
    /\ pc' = "returned"
    /\ UNCHANGED << args, estimator, exc, rng, results, splitter, indx,
                    model, start, caught, clones, fits, run, first, memo,
                    now, pace, timing, failures >>

\* the caller repeats the call with the same arguments
CallAgain ==
    /\ pc = "returned"
    /\ run = 1
    /\ estimator.kind = "dummy"
    /\ first' = table
    /\ run' = 2
    /\ pc' = "call"
    /\ results' = EmptyScores
    /\ splitter' = NoSplitter
    /\ indx' = 0
    /\ clones' = 0
    /\ fits' = 0
    /\ failures' = [fit |-> 0, predict |-> 0, other |-> 0]
    /\ table' = NoTable
    /\ pace' \in Paces
    /\ UNCHANGED << args, estimator, exc, rng, model, start, caught, memo,
                    now, timing >>

Next ==
    \/ CheckNSplits
    \/ Setup
    \/ CheckDataset
    \/ CloneEstimator
    \/ StartTimer
    \/ TryFold
    \/ RecordDuration
    \/ Return
    \/ CallAgain

Spec == Init /\ [][Next]_vars

\* ================================================================ claims
\* the failures the try block of a fold can raise
TryRaises ==
    {"fit", "predict", "RuntimeError", "InvalidMetric", "MetricError",
     "MissingTestTargets", "TestTargetsError", "mse", "mae", "r2"}

Done == pc \in {"returned", "raised"}

\* C1: a failure raised inside a fold's try block (fit, the test targets,
\* predict, the scores) never leaves the entry point: the fold's error flag
\* is 1, the call stays in the loop, and a call that returns has gone
\* through all n_splits folds and returns a row for every catalog metric.
C1_FoldFailureIsolated ==
    /\ exc \notin TryRaises
    /\ (pc = "record" /\ caught # "none") =>
          /\ exc = "none"
          /\ Len(results.errors) = indx + 1
          /\ results.errors[indx + 1] = 1
          /\ ENABLED RecordDuration
    /\ (pc = "loop" /\ indx < n_splits) => ENABLED CloneEstimator
    /\ pc = "returned" =>
          /\ Len(results.errors) = n_splits
          /\ DOMAIN table.rows = Range(Catalog(task))

\* C1 witness: a returned call whose first fold failed and whose last fold
\* succeeded
C1_Witness ==
    /\ pc = "returned"
    /\ results.errors[1] = 1
    /\ results.errors[n_splits] = 0

\* C2: every fold recorded as failed has 0 in every metric's slot
C2_FailedFoldSlotsZero ==
    \A i \in 1..Len(results.errors) :
        results.errors[i] = 1 =>
            \A m \in DOMAIN results.metrics : results.metrics[m][i] = 0

\* C3: a dataset without prediction targets makes the call fail with
\* MissingTargets before any fold: no clone, no fit, no ResultTable
C3_MissingTargetsFatal ==
    (data = "nopredictive" /\ n_splits >= 2) =>
        /\ clones = 0
        /\ fits = 0
        /\ pc # "returned"
        /\ pc \in {"call", "setup", "check"}
             \/ (pc = "raised" /\ exc = "MissingTargets")

C5_CloneFailureIsolated == exc # "CloneError"

\* C6: with n_splits < 2 the call raises InvalidArgument and has done
\* nothing: the random generator is not reseeded, the accumulator is not
\* filled, no splitter is built, no clone is made, fit is never called
C6_InvalidNSplitsNoEffects ==
    /\ (n_splits < 2 /\ pc # "call") =>
          /\ pc = "raised"
          /\ exc = "InvalidArgument"
          /\ rng = Entropy
          /\ DOMAIN results.metrics = {}
          /\ results.errors = << >>
          /\ results.durations = << >>
          /\ ~splitter.built
          /\ clones = 0
          /\ fits = 0
          /\ indx = 0
    /\ exc = "InvalidArgument" => n_splits < 2

C6_Witness == pc = "raised" /\ exc = "InvalidArgument" /\ n_splits = 1

\* the eight output statistics other than durations
ScoreColumns == Range(output_metrics) \ {"durations"}

\* C7 as stated: the repeated call of evaluate_classifier with a
\* deterministic estimator returns a table equal to the first in every row
\* and in each of the nine columns
C7_IdenticalTables ==
    (task = "classifier" /\ run = 2 /\ pc = "returned") =>
        /\ table.index = first.index
        /\ \A m \in DOMAIN table.rows :
              \A c \in Range(output_metrics) :
                  table.rows[m][c] = first.rows[m][c]

\* C7 amended: the repeated call returns the same rows in the same order,
\* equal in every column except durations
C7_IdenticalButDurations ==
    (task = "classifier" /\ run = 2 /\ pc = "returned") =>
        /\ table.index = first.index
        /\ DOMAIN table.rows = DOMAIN first.rows
        /\ \A m \in DOMAIN table.rows :
              \A c \in ScoreColumns :
                  table.rows[m][c] = first.rows[m][c]

\* C7 witness: evaluate_classifier returned twice, with a failed and a
\* successful fold, and the two calls measured different durations
C7_Witness ==
    /\ run = 2
    /\ pc = "returned"
    /\ task = "classifier"
    /\ results.errors[1] = 1
    /\ results.errors[n_splits] = 0
    /\ table.rows["mcc"].max = 1
    /\ table.rows["mcc"].durations # first.rows["mcc"].durations

\* C8: once the accumulator is filled, every metric array has length
\* n_splits; the duration sequence is as long as the number of folds
\* completed, and so is the error sequence, which is one longer between the
\* end of a fold's try block and the recording of its duration; every flag
\* is 0 or 1, 0 for a fold that succeeded and 1 for one that failed
C8_LockstepLengths ==
    splitter.built =>
        /\ \A m \in DOMAIN results.metrics :
              Len(results.metrics[m]) = n_splits
        /\ Len(results.durations) = indx
        /\ Len(results.errors) = indx + (IF pc = "record" THEN 1 ELSE 0)
        /\ \A i \in 1..Len(results.errors) : results.errors[i] \in {0, 1}
        /\ pc = "record" =>
              results.errors[indx + 1] = (IF caught = "none" THEN 0 ELSE 1)
        /\ indx <= n_splits

\* C8 witness: all folds done, one of them failed and one succeeded
C8_Witness ==
    /\ pc = "loop"
    /\ indx = n_splits
    /\ n_splits = 3
    /\ results.errors = << 0, 1, 0 >>
    /\ Len(results.durations) = 3

\* C9: when fit raised on every fold, every row of the returned table has
\* min, max, mean, median and iqr equal to 0 and errors equal to n_splits
C9_AllFitsFail ==
    (pc = "returned" /\ failures.fit = n_splits) =>
        \A m \in Range(Catalog(task)) :
            LET row == table.rows[m]
            IN  /\ row.min = 0
                /\ row.max = 0
                /\ row.mean.num = 0
                /\ row.median.num = 0
                /\ row.iqr.num = 0
                /\ row.errors = n_splits

C9_Witness == pc = "returned" /\ failures.fit = n_splits /\ n_splits = 3

RECURSIVE SumOn(_, _)
SumOn(v, I) ==
    IF I = {} THEN 0
    ELSE LET i == CHOOSE j \in I : TRUE IN v[i] + SumOn(v, I \ {i})

C11_EstimatorSucceeds ==
    (pc = "returned" /\ failures.fit = 0 /\ failures.predict = 0) =>
        \A m \in Range(Catalog(task)) :
            /\ table.rows[m].errors = 0
            /\ table.rows[m].rounds = n_splits

\* C11 amended: when on every fold the estimator succeeded and neither the
\* test targets nor the metric routines raised, every row of the returned
\* table has errors = 0 and rounds = n_splits; and rounds = n_splits in
\* every returned table
C11_AllFoldsSucceed ==
    pc = "returned" =>
        \A m \in Range(Catalog(task)) :
            /\ table.rows[m].rounds = n_splits
            /\ (failures.fit = 0 /\ failures.predict = 0
                  /\ failures.other = 0) => table.rows[m].errors = 0

\* C11 witness: three folds returned, nothing raised in any of them
C11_Witness ==
    /\ pc = "returned"
    /\ n_splits = 3
    /\ fits = 3
    /\ failures = [fit |-> 0, predict |-> 0, other |-> 0]
    /\ table.rows[Catalog(task)[1]].max = 1

\* C12: fit is only called on the fold's own fresh copy: the caller's
\* estimator is never fitted, every fit follows a deep copy made for the
\* same fold, and the copy a fold starts with is unfitted whatever earlier
\* folds did to theirs
C12_FreshCloneEachFold ==
    /\ ~estimator.fitted
    /\ pc \in {"start", "try"} => (model = "unfitted" /\ clones = indx + 1)
    /\ fits = (IF pc \in {"start", "try"} THEN clones - 1 ELSE clones)
         \/ (pc = "raised" /\ exc = "CloneError" /\ fits = clones)
    /\ pc = "returned" => (clones = n_splits /\ fits = n_splits)

\* C12 witness: the second fold is about to fit its copy, which is unfitted,
\* after the first fold fitted its own with success
C12_Witness ==
    /\ pc = "try"
    /\ indx = 1
    /\ fits = 1
    /\ failures.fit = 0
    /\ model = "unfitted"
    /\ ~estimator.fitted

\* C13: within a fold the start time is taken before the estimator is
\* cloned, so whenever the fold's clone exists the timer is running, and the
\* recorded duration covers the cloning as well as the try block
C13_StartBeforeClone ==
    /\ model # "none" => timing
    /\ pc = "record" => now - start >= 2 * pace

====
